---- MODULE Spec2Model ----
(***************************************************************************)
(* State-machine model of polanyi/pyscf.py: the Surface Bridge functions   *)
(* (e_g_function, e_g_function_python, e_g_function_ci_python), the TS     *)
(* drivers (ts_from_gfnff, ts_from_gfnff_python, ts_from_gfnff_ci), the    *)
(* MECI driver (ts_from_gfnff_ci_python) and optimize_ci.                  *)
(*                                                                         *)
(* Numbers are fixed-point integers.  A geometry is one coordinate.  The   *)
(* file system is a function from paths (sequences of names) to nodes.     *)
(***************************************************************************)
EXTENDS Integers, Sequences, FiniteSets, TLC

VARIABLES
  args,         \* args[r]: the arguments run r's driver was called with
  pc,           \* pc[r]: where run r's driver call is
  mol,          \* mol[r]: the optimizer's current geometry (Bohr)
  steps,        \* steps[r]: optimizer steps taken (line-search calls excluded)
  results,      \* results[r]: the run's OptResults object
  ret,          \* ret[r]: the value the driver call returned, or None
  conv,         \* conv[r]: how the optimizer ended ("none" while running)
  calls,        \* calls[r]: one record per Surface Bridge invocation of run r
  fs,           \* the file system: path -> node
  temp_objs,    \* temp_objs[r]: TemporaryDirectory objects not yet cleaned up
  sys_stdout,   \* whose buffer sys.stdout/sys.stderr point to (0: the process)
  process_out,  \* text that reached the process's own standard streams
  buffer,       \* buffer[r]: the StringIO pair of run r's redirect, and the
                \* history of all text run r wrote (written)
  ci            \* ci[r]: optimize_ci's locals (engine, tmpf artifacts, ...)

vars == <<args, pc, mol, steps, results, ret, conv, calls, fs, temp_objs,
          sys_stdout, process_out, buffer, ci>>

(***************************************************************************)
(* Bounds of the model.                                                    *)
(***************************************************************************)
MaxCalls == 2       \* Surface Bridge invocations explored per run
MaxSteps == 2       \* the maxsteps argument (step ceiling) of a run
MaxPrints == 1      \* text chunks written to the standard streams per run
MaxCopies == 1      \* deep copies of the engines wrapper made per run

Runs == {1, 2}

(***************************************************************************)
(* Small helpers.                                                          *)
(***************************************************************************)
Abs(x) == IF x < 0 THEN -x ELSE x

IsPrefix(p, q) == Len(p) <= Len(q) /\ SubSeq(q, 1, Len(p)) = p

\* floor of the square root of n (n >= 0), searched below an upper bound ub
ISqrt(n, ub) == CHOOSE k \in 0..ub : k * k <= n /\ (k + 1) * (k + 1) > n

(***************************************************************************)
(* The file system: pathlib / os / shutil calls used by the source.        *)
(***************************************************************************)
Exists(f, p) == p \in DOMAIN f

\* a node is a directory or a file holding a sequence of numbers
DirNode == [kind |-> "dir", data |-> <<>>]

FileNode(data) == [kind |-> "file", data |-> data]

IsDir(f, p) == Exists(f, p) /\ f[p].kind = "dir"

Parent(p) == SubSeq(p, 1, Len(p) - 1)

Ancestors(p) == {SubSeq(p, 1, k) : k \in 0..Len(p)}

\* Path.mkdir(exist_ok=..., parents=...): [ok |-> whether it returned, fs |-> after]
Mkdir(f, p, exist_ok, parents) ==
  IF Exists(f, p)
    THEN [ok |-> exist_ok /\ IsDir(f, p), fs |-> f]
  ELSE IF IsDir(f, Parent(p))
    THEN [ok |-> TRUE, fs |-> (p :> DirNode) @@ f]
  ELSE IF parents /\ \A q \in Ancestors(p) : Exists(f, q) => IsDir(f, q)
    THEN [ok |-> TRUE,
          fs |-> [q \in (Ancestors(p) \ DOMAIN f) |-> DirNode] @@ f]
  ELSE [ok |-> FALSE, fs |-> f]

\* open(p, "wb").write(content)
WriteFile(f, p, content) == (p :> FileNode(content)) @@ f

\* shutil.rmtree(d) / TemporaryDirectory.cleanup(): d and all below it go
Rmtree(f, d) == [q \in {x \in DOMAIN f : ~IsPrefix(d, x)} |-> f[q]]

\* os.remove(p)
Remove(f, p) == [q \in (DOMAIN f \ {p}) |-> f[q]]

TMP_DIR == <<"tmp">>

TempNames == <<"t1", "t2", "t3", "t4", "t5", "t6">>

IndexName == <<"0", "1", "2">>

\* tempfile picks a name that does not exist yet under TMP_DIR
FreshTemp(f) ==
  LET k == CHOOSE i \in 1..Len(TempNames) :
             /\ ~Exists(f, TMP_DIR \o <<TempNames[i]>>)
             /\ \A j \in 1..(i - 1) : Exists(f, TMP_DIR \o <<TempNames[j]>>)
  IN TMP_DIR \o <<TempNames[k]>>

RECURSIVE MakeTempDirs(_, _)
\* [TemporaryDirectory(dir=config.TMP_DIR) for i in range(n)]
MakeTempDirs(f, n) ==
  IF n = 0 THEN [fs |-> f, dirs |-> <<>>]
  ELSE LET d == FreshTemp(f)
           rest == MakeTempDirs((d :> DirNode) @@ f, n - 1)
       IN [fs |-> rest.fs, dirs |-> <<d>> \o rest.dirs]

(***************************************************************************)
(* Units and the external evaluators.                                      *)
(***************************************************************************)
BohrToAngstromNum == 529
BohrToAngstromDen == 1000

\* mol.atom_coords() * BOHR_TO_ANGSTROM
ToAngstrom(x) == (x * BohrToAngstromNum) \div BohrToAngstromDen

\* the diabatic surface of a GFN-FF topology t: a parabola centred at 4t - 2
DiabaticEnergy(t, a) == (a - (4 * t - 2)) * (a - (4 * t - 2))

DiabaticGradient(t, a) == 2 * (a - (4 * t - 2))

\* run_xtb(elements, coordinates, path=xtb_path, ...): xtb reads gfnff_topo in
\* its directory and writes xtb.engrad there
run_xtb(f, xtb_path, coordinates) ==
  LET t == f[xtb_path \o <<"gfnff_topo">>].data[1]
  IN WriteFile(f, xtb_path \o <<"xtb.engrad">>,
               <<DiabaticEnergy(t, coordinates), DiabaticGradient(t, coordinates)>>)

\* parse_engrad(xtb_path / "xtb.engrad"): (energy, gradient)
parse_engrad(f, p) == f[p].data

\* XTBCalculator.sp(return_gradient=True) of the calculator of topology t
calculator_sp(t, coordinates) ==
  <<DiabaticEnergy(t, coordinates), DiabaticGradient(t, coordinates)>>

(***************************************************************************)
(* The Secular Solver, polanyi.evb.evb_eigenvalues.  The Hamiltonian has   *)
(* the diabatic energies on its diagonal and the coupling between the last *)
(* two states, so the last two states mix by the closed form               *)
(*   E = (a + b -/+ sqrt((a - b)^2 + 4 c^2)) / 2                           *)
(* with squared eigenvector components as gradient weights, and the        *)
(* adiabatic states are then ordered by ascending energy.                  *)
(***************************************************************************)
\* position of element i of s in the stable ascending order by energy
Rank(s, i) ==
  1 + Cardinality({j \in 1..Len(s) :
        s[j].e < s[i].e \/ (s[j].e = s[i].e /\ j < i)})

SortByEnergy(s) == [k \in 1..Len(s) |-> s[CHOOSE i \in 1..Len(s) : Rank(s, i) = k]]

\* the two eigenstates of the last two diabatic states (state numbers from 0)
MixLastTwo(energies, gradients, coupling) ==
  LET n == Len(energies)
      a == energies[n - 1]
      b == energies[n]
      ga == gradients[n - 1]
      gb == gradients[n]
      D == ISqrt((a - b) * (a - b) + 4 * coupling * coupling,
                 Abs(a - b) + 2 * Abs(coupling))
      wlo == IF D = 0 THEN ga
             ELSE (ga * (D - (a - b)) + gb * (D + (a - b))) \div (2 * D)
      whi == IF D = 0 THEN gb
             ELSE (ga * (D + (a - b)) + gb * (D - (a - b))) \div (2 * D)
  IN << [e |-> (a + b - D) \div 2, g |-> wlo,
         idx |-> IF a <= b THEN n - 2 ELSE n - 1],
        [e |-> (a + b + D) \div 2, g |-> whi,
         idx |-> IF a <= b THEN n - 1 ELSE n - 2] >>

evb_eigenvalues(energies, gradients, coupling) ==
  LET n == Len(energies)
      unmixed == [i \in 1..(n - 2) |->
                    [e |-> energies[i], g |-> gradients[i], idx |-> i - 1]]
      ordered == SortByEnergy(unmixed \o MixLastTwo(energies, gradients, coupling))
  IN [energies_ad |-> [k \in 1..n |-> ordered[k].e],
      gradients_ad |-> [k \in 1..n |-> ordered[k].g],
      indices |-> [k \in 1..n |-> ordered[k].idx]]

(***************************************************************************)
(* OptResults and the Surface Bridge.                                      *)
(***************************************************************************)
NoPath == <<"None">>       \* path=None

\* OptResults(): every list empty, both texts empty
OptResults ==
  [coordinates |-> <<>>, energies_diabatic |-> <<>>, energies_adiabatic |-> <<>>,
   gradients_diabatic |-> <<>>, gradients_adiabatic |-> <<>>, indices |-> <<>>,
   stdout |-> <<>>, stderr |-> <<>>]

\* a Surface Bridge that records the geometry but loses the solver's output
StoreCoordinatesOnly(res, coordinates, energies, energies_ad, gradients, gradients_ad, indices) ==
  [res EXCEPT !.coordinates = Append(@, coordinates)]

\* the new entry put in front of the entries of earlier calls
StoreResultsFront(res, coordinates, energies, energies_ad, gradients, gradients_ad, indices) ==
  [res EXCEPT !.coordinates = <<coordinates>> \o @,
              !.energies_diabatic = <<energies>> \o @,
              !.energies_adiabatic = <<energies_ad>> \o @,
              !.gradients_diabatic = <<gradients>> \o @,
              !.gradients_adiabatic = <<gradients_ad>> \o @,
              !.indices = <<indices>> \o @]

\* "Store results": one entry appended to each of the six lists
StoreResults(res, coordinates, energies, energies_ad, gradients, gradients_ad, indices) ==
  [res EXCEPT !.coordinates = Append(@, coordinates),
              !.energies_diabatic = Append(@, energies),
              !.energies_adiabatic = Append(@, energies_ad),
              !.gradients_diabatic = Append(@, gradients),
              !.gradients_adiabatic = Append(@, gradients_ad),
              !.indices = Append(@, indices)]

\* the shift put on the first state instead of the last
ApplyShiftFirst(energies, e_shift) == [energies EXCEPT ![1] = @ + e_shift]

\* energies[-1] += e_shift
ApplyShift(energies, e_shift) ==
  [energies EXCEPT ![Len(energies)] = @ + e_shift]

\* the ground state handed back instead of the first excited state
TargetStateGround(energies_ad, gradients_ad) == <<energies_ad[1], gradients_ad[1]>>

\* return energies_ad[1], gradients_ad[1]   (Python index 1: the second entry)
TargetState(energies_ad, gradients_ad) == <<energies_ad[2], gradients_ad[2]>>

\* staging that writes the topology on every call
StageTopologyAlways(f, xtb_path, topology) ==
  [fs |-> WriteFile(f, xtb_path \o <<"gfnff_topo">>, <<topology>>), wrote |-> TRUE]

\* if not (xtb_path / "gfnff_topo").exists(): write the topology
StageTopology(f, xtb_path, topology) ==
  IF ~Exists(f, xtb_path \o <<"gfnff_topo">>)
    THEN [fs |-> WriteFile(f, xtb_path \o <<"gfnff_topo">>, <<topology>>),
          wrote |-> TRUE]
    ELSE [fs |-> f, wrote |-> FALSE]

\* the evaluator's result put in front of the lists instead of at their end
CollectFront(st, eg) ==
  [st EXCEPT !.raw = Append(@, eg),
             !.energies = <<eg[1]>> \o @,
             !.gradients = <<eg[2]>> \o @]

\* energies.append(energy); gradients.append(gradient)
Collect(st, eg) ==
  [st EXCEPT !.raw = Append(@, eg),
             !.energies = Append(@, eg[1]),
             !.gradients = Append(@, eg[2])]

\* a failed evaluator call that is tried once more before the error is raised
LoopRetry(st, i) == [st EXCEPT !.raised = TRUE, !.evals = Append(@, i)]

\* what an exception in state i's iteration leaves behind: the loop is left
LoopRaise(st, i) == [st EXCEPT !.raised = TRUE]

RECURSIVE XtbLoop(_, _, _, _, _, _)
\* for topology, xtb_path in zip(topologies, xtb_paths): ...  from state i on.
\* fail = i: the evaluator of state i (run_xtb / parse_engrad) raises.
XtbLoop(st, i, topologies, xtb_paths, coordinates, fail) ==
  IF i > Len(topologies) \/ st.raised THEN st
  ELSE
    LET d == xtb_paths[i]
        made == Mkdir(st.fs, d, TRUE, FALSE)
        staged == StageTopology(made.fs, d, topologies[i])
        invoked == [st EXCEPT
                      !.fs = staged.fs,
                      !.wrote = IF staged.wrote THEN @ \cup {i} ELSE @,
                      !.evals = Append(@, i),
                      !.reads = Append(@, staged.fs[d \o <<"gfnff_topo">>].data[1])]
        ran == run_xtb(staged.fs, d, coordinates)
        eg == parse_engrad(ran, d \o <<"xtb.engrad">>)
    IN IF ~made.ok THEN LoopRaise(st, i)
       ELSE IF fail = i THEN LoopRaise(invoked, i)
       ELSE XtbLoop(Collect([invoked EXCEPT !.fs = ran], eg),
                    i + 1, topologies, xtb_paths, coordinates, fail)

RECURSIVE CleanupAll(_, _)
\* for temp_dir in temp_dirs: temp_dir.cleanup()
CleanupAll(f, dirs) ==
  IF dirs = <<>> THEN f ELSE CleanupAll(Rmtree(f, Head(dirs)), Tail(dirs))

\* a call that records its geometry before it evaluates anything
ResultsOnRaiseGeometryKept(res, coordinates) ==
  [res EXCEPT !.coordinates = Append(@, coordinates)]

\* results as a call leaves them that raises in the evaluator loop or in the
\* solver: the appends under "Store results" are not reached
ResultsOnRaise(res, coordinates) == res

\* the record of one Surface Bridge invocation kept in calls[r]
CallRecord(bridge, m, coordinates, xtb_paths, st, shifted, solved, out, value, raised) ==
  [bridge |-> bridge, mol |-> m, coordinates |-> coordinates,
   xtb_paths |-> xtb_paths, wrote |-> st.wrote, evals |-> st.evals,
   reads |-> st.reads, evaluated |-> st.raw,
   solver_called |-> solved, solver_energies |-> shifted,
   solver_gradients |-> IF solved THEN st.gradients ELSE <<>>,
   energies_ad |-> out.energies_ad, gradients_ad |-> out.gradients_ad,
   value |-> value, raised |-> raised]

NoSolve == [energies_ad |-> <<>>, gradients_ad |-> <<>>, indices |-> <<>>]

\* e_g_function(mol, topologies, results, keywords, xcontrol_keywords, e_shift,
\* coupling, path).  fail: 0 nothing fails, i in 1..N the evaluator of state i
\* raises, N+1 the Secular Solver raises.
e_g_function(f, m, topologies, res, e_shift, coupling, path, fail) ==
  LET n == Len(topologies)
      temps == IF path = NoPath THEN MakeTempDirs(f, n) ELSE [fs |-> f, dirs |-> <<>>]
      xtb_paths == IF path = NoPath THEN temps.dirs
                   ELSE [i \in 1..n |-> path \o <<IndexName[i]>>]
      cleanup == (path = NoPath)
      coordinates == ToAngstrom(m)
      st == XtbLoop([fs |-> temps.fs, energies |-> <<>>, gradients |-> <<>>, raw |-> <<>>,
                     wrote |-> {}, evals |-> <<>>, reads |-> <<>>, raised |-> FALSE],
                    1, topologies, xtb_paths, coordinates, fail)
      energies == ApplyShift(st.energies, e_shift)
      out == evb_eigenvalues(energies, st.gradients, coupling)
      value == TargetState(out.energies_ad, out.gradients_ad)
  IN IF st.raised
       THEN [fs |-> st.fs, results |-> ResultsOnRaise(res, coordinates),
             value |-> <<>>, raised |-> TRUE,
             temp_dirs |-> temps.dirs,
             call |-> CallRecord("e_g_function", m, coordinates, xtb_paths, st,
                                 <<>>, FALSE, NoSolve, <<>>, TRUE)]
     ELSE IF fail = n + 1
       THEN [fs |-> st.fs, results |-> ResultsOnRaise(res, coordinates),
             value |-> <<>>, raised |-> TRUE,
             temp_dirs |-> temps.dirs,
             call |-> CallRecord("e_g_function", m, coordinates, xtb_paths, st,
                                 energies, TRUE, NoSolve, <<>>, TRUE)]
     ELSE [fs |-> IF cleanup THEN CleanupAll(st.fs, temps.dirs) ELSE st.fs,
           results |-> StoreResults(res, coordinates, energies, out.energies_ad,
                                    st.gradients, out.gradients_ad, out.indices),
           value |-> value, raised |-> FALSE, temp_dirs |-> <<>>,
           call |-> CallRecord("e_g_function", m, coordinates, xtb_paths, st,
                               energies, TRUE, out, value, FALSE)]

\* e_g_function_ci(mol, topologies, results, keywords, xcontrol_keywords,
\* e_shift, path): the body of e_g_function without the parameter coupling.
\* When the evaluator loop and the shift are done, the argument
\* "coupling=coupling" of the evb_eigenvalues call is evaluated: the name is
\* no parameter, no local and no global of the module, so NameError is raised
\* before the solver is called.
e_g_function_ci(f, m, topologies, res, e_shift, path, fail) ==
  LET n == Len(topologies)
      temps == IF path = NoPath THEN MakeTempDirs(f, n) ELSE [fs |-> f, dirs |-> <<>>]
      xtb_paths == IF path = NoPath THEN temps.dirs
                   ELSE [i \in 1..n |-> path \o <<IndexName[i]>>]
      coordinates == ToAngstrom(m)
      st == XtbLoop([fs |-> temps.fs, energies |-> <<>>, gradients |-> <<>>, raw |-> <<>>,
                     wrote |-> {}, evals |-> <<>>, reads |-> <<>>, raised |-> FALSE],
                    1, topologies, xtb_paths, coordinates, fail)
  IN [fs |-> st.fs, results |-> ResultsOnRaise(res, coordinates),
      value |-> <<>>, raised |-> TRUE, temp_dirs |-> temps.dirs,
      call |-> CallRecord("e_g_function_ci", m, coordinates, xtb_paths, st,
                          <<>>, FALSE, NoSolve, <<>>, TRUE)]

RECURSIVE CalculatorLoop(_, _, _, _, _)
\* for calculator in calculators: calculator.coordinates = coordinates;
\* energy, gradient = calculator.sp(return_gradient=True)   from calculator i on
CalculatorLoop(st, i, calculators, coordinates, fail) ==
  IF i > Len(calculators) \/ st.raised THEN st
  ELSE
    LET invoked == [st EXCEPT !.evals = Append(@, i),
                              !.reads = Append(@, calculators[i])]
        eg == calculator_sp(calculators[i], coordinates)
    IN IF fail = i THEN LoopRaise(invoked, i)
       ELSE CalculatorLoop(Collect(invoked, eg),
                           i + 1, calculators, coordinates, fail)

\* e_g_function_python(mol, calculators, results, e_shift, coupling, path)
e_g_function_python(f, m, calculators, res, e_shift, coupling, path, fail) ==
  LET n == Len(calculators)
      coordinates == ToAngstrom(m)
      st == CalculatorLoop([fs |-> f, energies |-> <<>>, gradients |-> <<>>, raw |-> <<>>,
                            wrote |-> {}, evals |-> <<>>, reads |-> <<>>, raised |-> FALSE],
                           1, calculators, coordinates, fail)
      energies == ApplyShift(st.energies, e_shift)
      out == evb_eigenvalues(energies, st.gradients, coupling)
      value == TargetState(out.energies_ad, out.gradients_ad)
  IN IF st.raised
       THEN [fs |-> f, results |-> ResultsOnRaise(res, coordinates),
             value |-> <<>>, raised |-> TRUE,
             temp_dirs |-> <<>>,
             call |-> CallRecord("e_g_function_python", m, coordinates, <<>>, st,
                                 <<>>, FALSE, NoSolve, <<>>, TRUE)]
     ELSE IF fail = n + 1
       THEN [fs |-> f, results |-> ResultsOnRaise(res, coordinates),
             value |-> <<>>, raised |-> TRUE,
             temp_dirs |-> <<>>,
             call |-> CallRecord("e_g_function_python", m, coordinates, <<>>, st,
                                 energies, TRUE, NoSolve, <<>>, TRUE)]
     ELSE [fs |-> f,
           results |-> StoreResults(res, coordinates, energies, out.energies_ad,
                                    st.gradients, out.gradients_ad, out.indices),
           value |-> value, raised |-> FALSE, temp_dirs |-> <<>>,
           call |-> CallRecord("e_g_function_python", m, coordinates, <<>>, st,
                               energies, TRUE, out, value, FALSE)]

(***************************************************************************)
(* The arguments a driver call is given, and the initial state.            *)
(***************************************************************************)
Geoms == {0, 10}                          \* geometries (Bohr) the optimizer visits
TopologyLists == {<<1, 2>>, <<2, 1, 1>>}  \* topologies / calculators, N = 2 and 3
EShifts == {0, 3}
TSDrivers == {"ts_from_gfnff", "ts_from_gfnff_python", "ts_from_gfnff_ci"}

Arguments(kind, topologies, e_shift, coupling, path, solver, methods, symmetry) ==
  [kind |-> kind, coordinates |-> 10, topologies |-> topologies,
   e_shift |-> e_shift, coupling |-> coupling, maxsteps |-> MaxSteps,
   path |-> path, solver |-> solver, methods |-> methods, symmetry |-> symmetry]

\* (e_shift, coupling) pairs
Shifts == {<<0, 0>>, <<3, 2>>}

TSArguments ==
  {Arguments(k, t, ec[1], ec[2], p, "geometric", <<>>, "False") :
     k \in TSDrivers, t \in TopologyLists, ec \in Shifts, p \in {NoPath, <<"p">>}}
  \cup {Arguments(k, <<1, 2>>, 3, 2, <<"a", "p">>, "geometric", <<>>, "False") :
     k \in TSDrivers}
  \cup {Arguments(k, <<1, 2>>, 3, 2, NoPath, "other", <<>>, "False") : k \in TSDrivers}
  \cup {Arguments("ts_from_gfnff", <<1, 2>>, 3, 2, NoPath, "pyberny", <<>>, "False")}

\* what optimize_ci can be handed as a method
MethodKinds == {"GradScanner", "GradientsMixin", "nuc_grad_method", "none"}

CIArguments ==
  {Arguments("ts_from_gfnff_ci_python", <<1, 2>>, e, 0, p, "geometric",
             <<"nuc_grad_method", "nuc_grad_method">>, "False") :
     e \in EShifts, p \in {NoPath, <<"a", "p">>}}
  \cup {Arguments("optimize_ci", <<1, 2>>, 0, 0, NoPath, "geometric", ms, sym) :
     ms \in {<<"GradScanner", "GradientsMixin">>, <<"nuc_grad_method", "none">>,
             <<"none", "GradScanner">>},
     sym \in {"False", "True", "Cs"}}

\* direct calls of e_g_function_ci with a new OptResults
DirectArguments ==
  {Arguments("e_g_function_ci", t, ec[1], ec[2], p, "none", <<>>, "False") :
     t \in TopologyLists, ec \in Shifts, p \in {NoPath, <<"p">>}}

NoArguments == Arguments("off", <<>>, 0, 0, NoPath, "none", <<>>, "False")

BaseFs == (<<>> :> DirNode) @@ (TMP_DIR :> DirNode)

\* a caller-supplied directory an earlier run left behind: state 0 is staged
\* with another topology, state 1 is not staged
UsedFs ==
  (<<"p", "0", "gfnff_topo">> :> FileNode(<<2>>)) @@ (<<"p", "0">> :> DirNode)
  @@ (<<"p">> :> DirNode) @@ BaseFs

InitFs == {BaseFs, UsedFs}

\* optimize_ci's locals before the call
NoCi == [g_scanners |-> <<>>, invoked |-> FALSE, symmetry |-> "False", evals |-> <<>>,
         result |-> <<>>, heap |-> <<>>, engines_wrapper |-> [engines |-> <<>>],
         copies |-> <<>>]

NoBuffer == [stdout |-> <<>>, stderr |-> <<>>, old |-> 0, active |-> FALSE,
             written |-> <<>>]

InitRuns(argsOf, fss) ==
  /\ args = argsOf
  /\ pc = [r \in Runs |-> IF argsOf[r].kind = "off" THEN "off" ELSE "ready"]
  /\ mol = [r \in Runs |-> argsOf[r].coordinates]
  /\ steps = [r \in Runs |-> 0]
  /\ results = [r \in Runs |-> OptResults]
  /\ ret = [r \in Runs |-> <<>>]
  /\ conv = [r \in Runs |-> "none"]
  /\ calls = [r \in Runs |-> <<>>]
  /\ fs \in fss
  /\ temp_objs = [r \in Runs |-> <<>>]
  /\ sys_stdout = 0
  /\ process_out = <<>>
  /\ buffer = [r \in Runs |-> NoBuffer]
  /\ ci = [r \in Runs |-> NoCi]

\* one driver call; a directory an earlier run used is there for the drivers
\* that stage topologies
Init ==
  \E a \in TSArguments \cup CIArguments \cup DirectArguments :
    InitRuns([r \in Runs |-> IF r = 1 THEN a ELSE NoArguments],
             IF a.kind \in {"ts_from_gfnff", "ts_from_gfnff_ci"} THEN InitFs ELSE {BaseFs})

\* a driver call with a step ceiling of one step
OneStep(a) == [a EXCEPT !.maxsteps = 1]

\* the driver calls of two threads of one process: run 1 under the path p,
\* run 2 under the same path, under no path, or with calculators
PairArguments ==
  {OneStep(Arguments("ts_from_gfnff", <<2, 1>>, 0, 0, <<"p">>, "geometric", <<>>, "False")),
   OneStep(Arguments("ts_from_gfnff_ci", <<2, 1>>, 3, 2, NoPath, "geometric", <<>>, "False")),
   OneStep(Arguments("ts_from_gfnff_python", <<2, 1>>, 3, 2, NoPath, "geometric", <<>>,
                     "False"))}

InitPair ==
  \E b \in PairArguments :
    InitRuns([r \in Runs |->
                IF r = 1
                  THEN OneStep(Arguments("ts_from_gfnff", <<1, 2>>, 3, 2, <<"p">>,
                                         "geometric", <<>>, "False"))
                  ELSE b],
             {BaseFs})

(***************************************************************************)
(* The TS drivers: ts_from_gfnff, ts_from_gfnff_python, ts_from_gfnff_ci.  *)
(***************************************************************************)
\* "if path: path.mkdir(...)" of each driver: [ok, fs]
DriverMkdir(f, kind, path) ==
  IF path = NoPath THEN [ok |-> TRUE, fs |-> f]
  ELSE Mkdir(f, path, TRUE, kind \in {"ts_from_gfnff_ci", "ts_from_gfnff_ci_python"})

\* ts_from_gfnff_ci binding its bridge without the coupling argument
BridgeCiUncoupled(a, f, m, res, fail) ==
  IF a.kind = "ts_from_gfnff_python"
    THEN e_g_function_python(f, m, a.topologies, res, a.e_shift, a.coupling, a.path, fail)
    ELSE e_g_function(f, m, a.topologies, res, a.e_shift,
                      IF a.kind = "ts_from_gfnff_ci" THEN 0 ELSE a.coupling, a.path, fail)

\* the Surface Bridge each driver binds in functools.partial
Bridge(a, f, m, res, fail) ==
  IF a.kind = "ts_from_gfnff_python"
    THEN e_g_function_python(f, m, a.topologies, res, a.e_shift, a.coupling, a.path, fail)
    ELSE e_g_function(f, m, a.topologies, res, a.e_shift, a.coupling, a.path, fail)

\* every run's Surface Bridge bound to the OptResults of run 1
OwnerShared(r) == 1

\* results = OptResults(): the object run r's driver call creates, binds into
\* its e_g_partial and returns is run r's own
Owner(r) == r

\* with redirect_stdout(StringIO()) as stdout, redirect_stderr(StringIO()) as stderr
EnterRedirect(r) ==
  /\ buffer' = [buffer EXCEPT ![r] = [stdout |-> <<>>, stderr |-> <<>>,
                                      old |-> sys_stdout, active |-> TRUE,
                                      written |-> <<>>]]
  /\ sys_stdout' = r

\* leaving the with block, normally or by an exception
ExitRedirect(r) ==
  /\ buffer' = [buffer EXCEPT ![r].active = FALSE]
  /\ sys_stdout' = buffer[r].old

\* the driver up to the call of pyscf_solver.optimize
ts_start(r) ==
  /\ pc[r] = "ready"
  /\ args[r].kind \in TSDrivers
  /\ LET made == DriverMkdir(fs, args[r].kind, args[r].path)
     IN /\ fs' = made.fs
        /\ IF made.ok /\ args[r].solver \in {"pyberny", "geometric"}
             THEN pc' = [pc EXCEPT ![r] = "optimizing"] /\ EnterRedirect(r)
             ELSE pc' = [pc EXCEPT ![r] = "failed"] /\ UNCHANGED <<buffer, sys_stdout>>
  /\ results' = [results EXCEPT ![r] = OptResults]
  /\ UNCHANGED <<args, mol, steps, ret, conv, calls, temp_objs, process_out, ci>>

\* a driver that keeps the captured standard output only
ts_return_stdout_only(res, buf) == [res EXCEPT !.stdout = buf.stdout]

\* results.stdout = stdout.getvalue(); results.stderr = ...; return results
ts_return(res, buf) == [res EXCEPT !.stdout = buf.stdout, !.stderr = buf.stderr]

\* the value a driver call returns when the optimizer has ended, converged or
\* not: the TS drivers return results, ts_from_gfnff_ci_python returns the
\* coordinates of the molecule optimize_ci returned
DriverReturn(a, res, buf, m, converged) ==
  IF a.kind = "ts_from_gfnff_ci_python" THEN <<ToAngstrom(m)>>
  ELSE <<ts_return(res, buf)>>

\* the optimizer evaluates the bound Surface Bridge at its current geometry and
\* moves on; the evaluation either is a step of its own or belongs to a line search
OptimizerEvaluate(r) ==
  /\ pc[r] = "optimizing"
  /\ args[r].kind \in TSDrivers
  /\ Len(calls[r]) < MaxCalls
  /\ steps[r] < args[r].maxsteps
  /\ \E fail \in 0..(Len(args[r].topologies) + 1), next \in Geoms, step \in {0, 1} :
       LET out == Bridge(args[r], fs, mol[r], results[Owner(r)], fail)
       IN /\ fs' = out.fs
          /\ results' = [results EXCEPT ![Owner(r)] = out.results]
          /\ calls' = [calls EXCEPT ![r] = Append(@, out.call)]
          /\ temp_objs' = [temp_objs EXCEPT ![r] = out.temp_dirs]
          /\ IF out.raised
               THEN /\ pc' = [pc EXCEPT ![r] = "failed"]
                    /\ ExitRedirect(r)
                    /\ UNCHANGED <<mol, steps>>
               ELSE /\ mol' = [mol EXCEPT ![r] = next]
                    /\ steps' = [steps EXCEPT ![r] = @ + step]
                    /\ UNCHANGED <<pc, buffer, sys_stdout>>
  /\ UNCHANGED <<args, ret, conv, process_out, ci>>

\* the optimizer reports convergence: optimize returns, the driver returns results
OptimizerConverged(r) ==
  /\ pc[r] = "optimizing"
  /\ args[r].kind \in TSDrivers
  /\ Len(calls[r]) >= 1
  /\ conv' = [conv EXCEPT ![r] = "converged"]
  /\ ExitRedirect(r)
  /\ results' = [results EXCEPT ![r] = ts_return(@, buffer[r])]
  /\ ret' = [ret EXCEPT ![r] = DriverReturn(args[r], results[r], buffer[r], mol[r], TRUE)]
  /\ pc' = [pc EXCEPT ![r] = "returned"]
  /\ UNCHANGED <<args, mol, steps, calls, fs, temp_objs, process_out, ci>>

\* the step ceiling is reached: the solver's optimize catches the optimizer's
\* NotConvergedError and returns, and the driver returns results
OptimizerNotConverged(r) ==
  /\ pc[r] = "optimizing"
  /\ args[r].kind \in TSDrivers
  /\ steps[r] = args[r].maxsteps
  /\ conv' = [conv EXCEPT ![r] = "unconverged"]
  /\ ExitRedirect(r)
  /\ results' = [results EXCEPT ![r] = ts_return(@, buffer[r])]
  /\ ret' = [ret EXCEPT ![r] = DriverReturn(args[r], results[r], buffer[r], mol[r], FALSE)]
  /\ pc' = [pc EXCEPT ![r] = "returned"]
  /\ UNCHANGED <<args, mol, steps, calls, fs, temp_objs, process_out, ci>>

\* text written to sys.stdout / sys.stderr while the optimizer runs
OptimizerPrint(r) ==
  /\ pc[r] = "optimizing"
  /\ Len(buffer[r].written) < MaxPrints
  /\ \E stream \in {"stdout", "stderr"} :
       IF sys_stdout = 0
         THEN /\ process_out' = Append(process_out, <<r, stream>>)
              /\ buffer' = [buffer EXCEPT ![r].written = Append(@, <<r, stream>>)]
         ELSE /\ buffer' = [buffer EXCEPT ![sys_stdout][stream] = Append(@, <<r, stream>>),
                                          ![r].written = Append(@, <<r, stream>>)]
              /\ UNCHANGED process_out
  /\ UNCHANGED <<args, pc, mol, steps, results, ret, conv, calls, fs, temp_objs,
                 sys_stdout, ci>>

\* the finalizer of the TemporaryDirectory objects a failed call left behind
\* runs when they are garbage collected
TempFinalize(r) ==
  /\ pc[r] = "failed"
  /\ temp_objs[r] # <<>>
  /\ fs' = CleanupAll(fs, temp_objs[r])
  /\ temp_objs' = [temp_objs EXCEPT ![r] = <<>>]
  /\ UNCHANGED <<args, pc, mol, steps, results, ret, conv, calls,
                 sys_stdout, process_out, buffer, ci>>

(***************************************************************************)
(* The MECI driver ts_from_gfnff_ci_python and optimize_ci.                *)
(***************************************************************************)
CIDrivers == {"ts_from_gfnff_ci_python", "optimize_ci"}

\* tmpf = tempfile.mktemp(dir=lib.param.TMPDIR): the two artifacts of run r
OptimXyz(r) == TMP_DIR \o << <<"f1_optim.xyz", "f2_optim.xyz">>[r] >>

TmpDir(r) == TMP_DIR \o << <<"f1.tmp", "f2.tmp">>[r] >>

\* e_g_function_ci_python(mol, calculator, e_shift, path): (energy, gradient)
e_g_function_ci_python(m, calculator, e_shift) ==
  LET coordinates == ToAngstrom(m)
      eg == calculator_sp(calculator, coordinates)
  IN <<eg[1] + e_shift, eg[2]>>

\* the e_shift bound into e_g_partial_1 (engine 1) and e_g_partial_2 (engine 2)
PartialShift(engine, e_shift) == IF engine = 1 THEN 0 ELSE e_shift

\* a method without nuclear gradients passed on as if it had a handle
AcquireScannersSkip(methods, i, g_scanners) ==
  [ok |-> TRUE, g_scanners |-> [k \in 1..Len(methods) |-> k]]

RECURSIVE AcquireScanners(_, _, _)
\* for method in methods: ... g_scanners.append(g_scanner), from method i on:
\* [ok, g_scanners]; ok is FALSE when NotImplementedError was raised
AcquireScanners(methods, i, g_scanners) ==
  IF i > Len(methods) THEN [ok |-> TRUE, g_scanners |-> g_scanners]
  ELSE IF methods[i] \in {"GradScanner", "GradientsMixin", "nuc_grad_method"}
    THEN AcquireScanners(methods, i + 1, Append(g_scanners, i))
  ELSE [ok |-> FALSE, g_scanners |-> g_scanners]

\* the symmetry keyword left as the molecule came with it
PinSymmetryNever(symmetry, topgroup) == symmetry

\* if engine.mol.symmetry: engine.mol.symmetry = engine.mol.topgroup
PinSymmetry(symmetry, topgroup) == IF symmetry # "False" THEN topgroup ELSE symmetry

\* geometric_solver.PySCFEngine(g_scanner): a new engine object; the heap of
\* engine objects is a sequence, an object's identity its index
PySCFEngine(g_scanner) == [g_scanner |-> g_scanner, cycle |-> 0]

\* EnginesWrapper.__init__(engine_list): the wrapper refers to the engines
EnginesWrapper(engine_list) == [engines |-> engine_list]

\* EnginesWrapper.__getitem__(key), key counted from 1 here
EnginesWrapper_getitem(w, key) == w.engines[key]

\* EnginesWrapper.__len__()
EnginesWrapper_len(w) == Len(w.engines)

\* a deep copy that duplicates every engine object
EnginesWrapper_deepclone(heap, w) ==
  [heap |-> heap \o [i \in 1..Len(w.engines) |-> heap[w.engines[i]]],
   wrapper |-> EnginesWrapper([i \in 1..Len(w.engines) |-> Len(heap) + i])]

\* EnginesWrapper.__deepcopy__(memo): [heap |-> the objects after, wrapper |-> the copy]
EnginesWrapper_deepcopy(heap, w) ==
  [heap |-> heap, wrapper |-> EnginesWrapper(w.engines)]

\* engine.calc_new of the engine object e: its state changes
EngineCalc(heap, e) == [heap EXCEPT ![e].cycle = @ + 1]

\* conv set to True on both paths
ci_conv_true(not_converged) == TRUE

\* conv = True after run_optimizer returned, conv = False in the except clause
ci_conv(not_converged) == ~not_converged

\* "Remove the temporary files created by geomeTRIC"
ci_cleanup(f, r) ==
  LET f1 == IF Exists(f, OptimXyz(r)) THEN Remove(f, OptimXyz(r)) ELSE f
  IN IF Exists(f1, TmpDir(r)) THEN Rmtree(f1, TmpDir(r)) ELSE f1

\* the value optimize_ci's caller makes of (conv, engine.mol)
ci_return(a, converged, m) ==
  IF a.kind = "optimize_ci" THEN <<converged, m>>
  ELSE DriverReturn(a, OptResults, NoBuffer, m, converged)

\* ts_from_gfnff_ci_python up to its call of optimize_ci, and optimize_ci up to
\* its call of geometric.optimize.run_optimizer
optimize_ci_start(r) ==
  /\ pc[r] = "ready"
  /\ args[r].kind \in CIDrivers
  /\ LET made == IF args[r].kind = "optimize_ci" THEN [ok |-> TRUE, fs |-> fs]
                 ELSE DriverMkdir(fs, args[r].kind, args[r].path)
         got == AcquireScanners(args[r].methods, 1, <<>>)
     IN /\ fs' = made.fs
        /\ IF made.ok /\ got.ok
             THEN /\ pc' = [pc EXCEPT ![r] = "optimizing"]
                  /\ ci' = [ci EXCEPT ![r].g_scanners = got.g_scanners,
                                      ![r].heap = <<PySCFEngine(got.g_scanners[1]),
                                                    PySCFEngine(got.g_scanners[2])>>,
                                      ![r].engines_wrapper = EnginesWrapper(<<1, 2>>),
                                      ![r].invoked = TRUE,
                                      ![r].symmetry = PinSymmetry(args[r].symmetry, "C2v")]
             ELSE /\ pc' = [pc EXCEPT ![r] = "failed"]
                  /\ ci' = [ci EXCEPT ![r].g_scanners =
                                        IF made.ok THEN got.g_scanners ELSE <<>>]
  /\ UNCHANGED <<args, mol, steps, results, ret, conv, calls, temp_objs,
                 sys_stdout, process_out, buffer>>

\* geomeTRIC creates <tmpf>.tmp and, once it has evaluated a geometry, writes
\* <tmpf>_optim.xyz
CiOptimizerWrite(r) ==
  /\ pc[r] = "optimizing"
  /\ args[r].kind \in CIDrivers
  /\ \/ /\ ~Exists(fs, OptimXyz(r))
        /\ ci[r].evals # <<>>
        /\ fs' = WriteFile(fs, OptimXyz(r), <<mol[r]>>)
     \/ /\ ~Exists(fs, TmpDir(r))
        /\ fs' = (TmpDir(r) :> DirNode) @@ fs
  /\ UNCHANGED <<args, pc, mol, steps, results, ret, conv, calls, temp_objs,
                 sys_stdout, process_out, buffer, ci>>

\* the optimizer deep-copies the engines wrapper of the penalty engine
CiDeepcopy(r) ==
  /\ pc[r] = "optimizing"
  /\ args[r].kind \in CIDrivers
  /\ Len(ci[r].copies) < MaxCopies
  /\ LET made == EnginesWrapper_deepcopy(ci[r].heap, ci[r].engines_wrapper)
     IN ci' = [ci EXCEPT ![r].heap = made.heap,
                         ![r].copies = Append(@, made.wrapper)]
  /\ UNCHANGED <<args, pc, mol, steps, results, ret, conv, calls, fs, temp_objs,
                 sys_stdout, process_out, buffer>>

\* one evaluation of the penalty engine: engine 1, then engine 2, reached
\* through the wrapper (via = 0) or through one of its copies.
\* fail = i: the evaluator of engine i raises.
CiEvaluate(r) ==
  /\ pc[r] = "optimizing"
  /\ args[r].kind \in CIDrivers
  /\ Len(ci[r].evals) < 2 * MaxCalls
  /\ steps[r] < args[r].maxsteps
  /\ \E fail \in 0..2, next \in Geoms, step \in {0, 1}, via \in 0..Len(ci[r].copies) :
       LET w == IF via = 0 THEN ci[r].engines_wrapper ELSE ci[r].copies[via]
           eval(i) == [engine |-> i, via |-> via, mol |-> mol[r], raised |-> fail = i,
                       raw |-> calculator_sp(args[r].topologies[i], ToAngstrom(mol[r])),
                       value |-> e_g_function_ci_python(mol[r], args[r].topologies[i],
                                   PartialShift(i, args[r].e_shift))]
           called1 == EngineCalc(ci[r].heap, EnginesWrapper_getitem(w, 1))
       IN /\ ci' = [ci EXCEPT ![r].evals =
                      IF fail = 1 THEN Append(@, eval(1))
                      ELSE Append(Append(@, eval(1)), eval(2)),
                                ![r].heap =
                      IF fail = 1 THEN called1
                      ELSE EngineCalc(called1, EnginesWrapper_getitem(w, 2))]
          /\ IF fail # 0
               THEN /\ pc' = [pc EXCEPT ![r] = "failed"]
                    /\ UNCHANGED <<mol, steps>>
               ELSE /\ mol' = [mol EXCEPT ![r] = next]
                    /\ steps' = [steps EXCEPT ![r] = @ + step]
                    /\ UNCHANGED pc
  /\ UNCHANGED <<args, results, ret, conv, calls, fs, temp_objs,
                 sys_stdout, process_out, buffer>>

\* run_optimizer returns: conv = True, cleanup, return conv, engine.mol
CiConverged(r) ==
  /\ pc[r] = "optimizing"
  /\ args[r].kind \in CIDrivers
  /\ Len(ci[r].evals) >= 2
  /\ conv' = [conv EXCEPT ![r] = "converged"]
  /\ fs' = ci_cleanup(fs, r)
  /\ ret' = [ret EXCEPT ![r] = ci_return(args[r], ci_conv(FALSE), mol[r])]
  /\ ci' = [ci EXCEPT ![r].result = <<ci_conv(FALSE), mol[r]>>]
  /\ pc' = [pc EXCEPT ![r] = "returned"]
  /\ UNCHANGED <<args, mol, steps, results, calls, temp_objs,
                 sys_stdout, process_out, buffer>>

\* run_optimizer raises NotConvergedError at the step ceiling: caught,
\* conv = False, cleanup, return conv, engine.mol
CiNotConverged(r) ==
  /\ pc[r] = "optimizing"
  /\ args[r].kind \in CIDrivers
  /\ steps[r] = args[r].maxsteps
  /\ conv' = [conv EXCEPT ![r] = "unconverged"]
  /\ fs' = ci_cleanup(fs, r)
  /\ ret' = [ret EXCEPT ![r] = ci_return(args[r], ci_conv(TRUE), mol[r])]
  /\ ci' = [ci EXCEPT ![r].result = <<ci_conv(TRUE), mol[r]>>]
  /\ pc' = [pc EXCEPT ![r] = "returned"]
  /\ UNCHANGED <<args, mol, steps, results, calls, temp_objs,
                 sys_stdout, process_out, buffer>>

\* a call e_g_function_ci(mol, topologies, results, e_shift=..., path=...)
\* with results a new OptResults; fail = i: the evaluator of state i raises
e_g_function_ci_call(r) ==
  /\ pc[r] = "ready"
  /\ args[r].kind = "e_g_function_ci"
  /\ \E fail \in 0..Len(args[r].topologies) :
       LET out == e_g_function_ci(fs, mol[r], args[r].topologies, OptResults,
                                  args[r].e_shift, args[r].path, fail)
       IN /\ fs' = out.fs
          /\ results' = [results EXCEPT ![r] = out.results]
          /\ calls' = [calls EXCEPT ![r] = Append(@, out.call)]
          /\ temp_objs' = [temp_objs EXCEPT ![r] = out.temp_dirs]
          /\ ret' = [ret EXCEPT ![r] = out.value]
          /\ pc' = [pc EXCEPT ![r] = IF out.raised THEN "failed" ELSE "returned"]
  /\ UNCHANGED <<args, mol, steps, conv, sys_stdout, process_out, buffer, ci>>

Next ==
  \E r \in Runs :
    \/ e_g_function_ci_call(r)
    \/ ts_start(r)
    \/ OptimizerEvaluate(r)
    \/ OptimizerConverged(r)
    \/ OptimizerNotConverged(r)
    \/ OptimizerPrint(r)
    \/ TempFinalize(r)
    \/ optimize_ci_start(r)
    \/ CiOptimizerWrite(r)
    \/ CiDeepcopy(r)
    \/ CiEvaluate(r)
    \/ CiConverged(r)
    \/ CiNotConverged(r)

Spec == Init /\ [][Next]_vars

\* two TS driver calls interleaved at the optimizer's callbacks; the text they
\* write is left out, it does not touch the trajectory
NextPair ==
  \E r \in Runs :
    \/ ts_start(r)
    \/ OptimizerEvaluate(r)
    \/ OptimizerConverged(r)
    \/ OptimizerNotConverged(r)
    \/ TempFinalize(r)

SpecPair == InitPair /\ [][NextPair]_vars

(***************************************************************************)
(* Properties.                                                             *)
(***************************************************************************)
XtbDrivers == {"ts_from_gfnff", "ts_from_gfnff_ci"}

TSRuns == {r \in Runs : args[r].kind \in TSDrivers}

ListLengths(res) ==
  {Len(res.coordinates), Len(res.energies_diabatic), Len(res.energies_adiabatic),
   Len(res.gradients_diabatic), Len(res.gradients_adiabatic), Len(res.indices)}

\* C1: when a TS driver call has returned, each of the six per-step lists of
\* its OptResults is as long as the number of Surface Bridge invocations the
\* optimizer made in that run, line-search evaluations included.
C1_TrajectoryLength ==
  \A r \in TSRuns :
    pc[r] = "returned" => ListLengths(ret[r][1]) = {Len(calls[r])}

\* a run that returned after two invocations of which one was no step of its own
C1_Witness ==
  \E r \in TSRuns :
    pc[r] = "returned" /\ Len(calls[r]) = 2 /\ steps[r] = 1
      /\ Len(ret[r][1].coordinates) = 2

CIRuns == {r \in Runs : args[r].kind \in CIDrivers}

Ended(r) == pc[r] \in {"returned", "failed"}

\* C2: after every optimize_ci run, however it ended (converged, not
\* converged, or an error raised by an evaluator), neither <tmpf>_optim.xyz
\* nor <tmpf>.tmp exists.
C2_NoArtifactRemains ==
  \A r \in CIRuns :
    Ended(r) => ~Exists(fs, OptimXyz(r)) /\ ~Exists(fs, TmpDir(r))

\* the optimizer of run r can end converged and can end at the step ceiling
CanEndEitherWay(r) ==
  /\ ENABLED (OptimizerConverged(r) \/ CiConverged(r))
  /\ ENABLED (OptimizerNotConverged(r) \/ CiNotConverged(r))

\* C3: the value a driver call returns tells whether the optimizer converged:
\* wherever the optimizer can end either way, the value returned for a
\* converged end differs from the value returned for an unconverged end.
C3_ConvergenceIndicated ==
  \A r \in Runs :
    (args[r].kind \in TSDrivers \cup {"ts_from_gfnff_ci_python"} /\ CanEndEitherWay(r))
      => DriverReturn(args[r], results[r], buffer[r], mol[r], TRUE)
           # DriverReturn(args[r], results[r], buffer[r], mol[r], FALSE)

XtbRuns == {r \in Runs : args[r].kind \in XtbDrivers}

IsTopoFile(p) == Len(p) > 0 /\ p[Len(p)] = "gfnff_topo"

\* what one step of a run with a caller-supplied path must satisfy
C4_Step(r) ==
  /\ \A p \in DOMAIN fs :
       (IsTopoFile(p) /\ IsPrefix(args[r].path, p)) => (p \in DOMAIN fs' /\ fs'[p] = fs[p])
  /\ Len(calls'[r]) = Len(calls[r]) + 1 =>
       LET c == calls'[r][Len(calls'[r])]
       IN \A j \in 1..Len(calls[r]) :
            (~calls[r][j].raised /\ ~c.raised /\ calls[r][j].mol = c.mol)
              => (c.value = calls[r][j].value /\ c.wrote = {})

\* C4: with a caller-supplied path, an e_g_function call at a geometry an
\* earlier call of the run was made at returns the same (energy, gradient) and
\* writes no gfnff_topo file; and no step changes or removes a gfnff_topo file
\* that exists under the path, whatever topology the call was given.
C4_Idempotent ==
  [][\A r \in XtbRuns : args[r].path # NoPath => C4_Step(r)]_vars

\* two returned calls at the same geometry, the first state's gfnff_topo being
\* one an earlier run left, with other bytes than the topology given
C4_Witness ==
  \E r \in XtbRuns :
    /\ args[r].path # NoPath
    /\ Len(calls[r]) = 2
    /\ ~calls[r][1].raised /\ ~calls[r][2].raised
    /\ calls[r][1].mol = calls[r][2].mol
    /\ calls[r][2].reads[1] # args[r].topologies[1]
    /\ calls[r][1].wrote = {2}

Range(s) == {s[i] : i \in 1..Len(s)}

\* C5 (as claimed): in every run, with a caller-supplied path and with path
\* None alike, a state's gfnff_topo is written by the first Surface Bridge
\* call only: every later call of the run writes none and only reads it.
C5_WrittenOnce ==
  \A r \in XtbRuns :
    \A k \in 2..Len(calls[r]) : calls[r][k].wrote = {}

\* C5 (amended): with a caller-supplied path a state's gfnff_topo is written
\* at most once in a run and only by the run's first Surface Bridge call, what
\* a call wrote is what its evaluator reads, and every later call writes
\* nothing and reads the same artifact as the first call; with path None every
\* call writes the gfnff_topo of each state it evaluates into a fresh
\* temporary directory.
C5_WrittenOncePerDirectory ==
  \A r \in XtbRuns :
    \A k \in 1..Len(calls[r]) :
      LET c == calls[r][k]
      IN /\ \A i \in c.wrote : c.reads[i] = args[r].topologies[i]
         /\ args[r].path = NoPath => c.wrote = Range(c.evals)
         /\ (args[r].path # NoPath /\ k > 1) =>
              /\ c.wrote = {}
              /\ \A i \in 1..Len(c.reads) : c.reads[i] = calls[r][1].reads[i]

\* a run with path None whose second call wrote the topologies again, and
\* (in another run) a second call under a supplied path that wrote nothing
C5_Witness ==
  \E r \in XtbRuns :
    /\ Len(calls[r]) = 2
    /\ ~calls[r][2].raised
    /\ \/ args[r].path = NoPath /\ calls[r][2].wrote = {1, 2, 3}
       \/ args[r].path # NoPath /\ calls[r][1].wrote = {1, 2} /\ calls[r][2].wrote = {}

\* C6: with path None every temporary directory a Surface Bridge call of the
\* run created is gone once the run has ended; with a caller-supplied path the
\* per-state directories the run used and their gfnff_topo files still exist.
C6_TempDirsRemoved ==
  \A r \in XtbRuns :
    \A k \in 1..Len(calls[r]) :
      LET c == calls[r][k]
      IN /\ (args[r].path = NoPath /\ Ended(r)) =>
              \A i \in 1..Len(c.xtb_paths) : ~Exists(fs, c.xtb_paths[i])
         /\ args[r].path # NoPath =>
              \A i \in Range(c.evals) :
                /\ IsDir(fs, c.xtb_paths[i])
                /\ Exists(fs, c.xtb_paths[i] \o <<"gfnff_topo">>)

\* the evaluator of some state raised in this Surface Bridge call
EvaluatorFailed(c) == c.raised /\ Len(c.evals) > Len(c.evaluated)

\* C7: when the evaluator of a diabatic state fails in a Surface Bridge call,
\* that call invoked the evaluators of the states up to the failed one once
\* each and no other, it is the last call of the run, and the run has ended
\* with the error and without a result.
C7_FailurePropagates ==
  \A r \in TSRuns :
    \A k \in 1..Len(calls[r]) :
      LET c == calls[r][k]
      IN EvaluatorFailed(c) =>
           /\ c.evals = [i \in 1..(Len(c.evaluated) + 1) |-> i]
           /\ ~c.solver_called
           /\ k = Len(calls[r])
           /\ pc[r] = "failed"
           /\ ret[r] = <<>>

\* the evaluator of the second of three states failed in the second call
C7_Witness ==
  \E r \in TSRuns :
    /\ Len(calls[r]) = 2
    /\ EvaluatorFailed(calls[r][2])
    /\ calls[r][2].evals = <<1, 2>>
    /\ Len(args[r].topologies) = 3

\* C8: optimize_ci returns (False, mol) when the optimizer raised
\* NotConvergedError, which does not end the run with an error, and it
\* returns (True, mol) exactly when the optimizer returned without it.
C8_NotConvergedIsCaught ==
  \A r \in CIRuns :
    /\ conv[r] = "unconverged" => (pc[r] = "returned" /\ ci[r].result = <<FALSE, mol[r]>>)
    /\ conv[r] = "converged" => (pc[r] = "returned" /\ ci[r].result = <<TRUE, mol[r]>>)
    /\ pc[r] = "returned" => conv[r] \in {"converged", "unconverged"}

\* an optimize_ci call that hit the step ceiling and returned False
C8_Witness ==
  \E r \in CIRuns :
    /\ args[r].kind = "optimize_ci"
    /\ conv[r] = "unconverged"
    /\ pc[r] = "returned"
    /\ ret[r] = <<FALSE, mol[r]>>

\* C9: the (energy, gradient) a returned Surface Bridge call hands to the
\* optimizer is entry 1 (counted from 0) of the Secular Solver output of that
\* call, the one recorded in record k of energies_adiabatic and
\* gradients_adiabatic by call k.
C9_TargetIsIndexOne ==
  \A r \in TSRuns :
    \A k \in 1..Len(calls[r]) :
      LET c == calls[r][k]
      IN ~c.raised =>
           /\ c.value = <<c.energies_ad[2], c.gradients_ad[2]>>
           /\ c.value = <<results[r].energies_adiabatic[k][2],
                          results[r].gradients_adiabatic[k][2]>>

\* a second call over three states whose adiabatic energies all differ
C9_Witness ==
  \E r \in TSRuns :
    /\ Len(calls[r]) = 2
    /\ ~calls[r][2].raised
    /\ Len(calls[r][2].energies_ad) = 3
    /\ calls[r][2].energies_ad[1] # calls[r][2].energies_ad[2]
    /\ calls[r][2].energies_ad[2] # calls[r][2].energies_ad[3]
    /\ calls[r][2].value = <<results[r].energies_adiabatic[2][2],
                             results[r].gradients_adiabatic[2][2]>>

\* C10: whenever a Surface Bridge call reaches the Secular Solver, every
\* evaluator has returned and the solver gets the evaluators' energies with
\* e_shift added once to the last state and to no other, and their gradients
\* unchanged; in the MECI driver engine 1 returns its calculator's energy
\* unshifted and engine 2 its calculator's energy plus e_shift.
C10_ShiftOnLastStateOnly ==
  /\ \A r \in TSRuns :
       \A k \in 1..Len(calls[r]) :
         LET c == calls[r][k]
             n == Len(args[r].topologies)
         IN c.solver_called =>
              /\ Len(c.evaluated) = n
              /\ Len(c.solver_energies) = n
              /\ \A i \in 1..n :
                   /\ c.solver_energies[i] =
                        c.evaluated[i][1] + (IF i = n THEN args[r].e_shift ELSE 0)
                   /\ c.solver_gradients[i] = c.evaluated[i][2]
  /\ \A r \in CIRuns :
       \A k \in 1..Len(ci[r].evals) :
         LET e == ci[r].evals[k]
         IN e.value = <<e.raw[1] + (IF e.engine = 2 THEN args[r].e_shift ELSE 0),
                        e.raw[2]>>

\* a call over three states with a shift of 3 that reached the solver
C10_Witness ==
  \E r \in TSRuns :
    /\ args[r].e_shift = 3
    /\ Len(calls[r]) >= 1
    /\ calls[r][1].solver_called
    /\ Len(calls[r][1].solver_energies) = 3
    /\ calls[r][1].solver_energies[3] = calls[r][1].evaluated[3][1] + 3

\* C11: a Surface Bridge call that returns has invoked the evaluator once per
\* diabatic state, state 0 first and in the order of the configured
\* topologies / calculators, each state with its own working directory or
\* calculator, and the Secular Solver gets the energies and gradients in that
\* state order; every returned call of a run has the same order.
C11_StableStateOrder ==
  \A r \in TSRuns :
    \A k \in 1..Len(calls[r]) :
      LET c == calls[r][k]
          n == Len(args[r].topologies)
      IN ~c.raised =>
           /\ c.evals = [i \in 1..n |-> i]
           /\ Len(c.evaluated) = n
           /\ c.solver_gradients = [i \in 1..n |-> c.evaluated[i][2]]
           /\ results[r].gradients_diabatic[k] = [i \in 1..n |-> c.evaluated[i][2]]
           /\ \A i \in 1..n :
                /\ c.evaluated[i] = calculator_sp(c.reads[i], c.coordinates)
                /\ c.solver_energies[i] - c.evaluated[i][1] \in {0, args[r].e_shift}
                /\ (c.bridge = "e_g_function_python" \/ args[r].path = NoPath)
                     => c.reads[i] = args[r].topologies[i]
                /\ (c.bridge = "e_g_function" /\ args[r].path # NoPath)
                     => c.xtb_paths[i] = args[r].path \o <<IndexName[i]>>
           /\ c.evals = calls[r][1].evals

\* two returned calls over three states whose first two gradients differ
C11_Witness ==
  \E r \in TSRuns :
    /\ Len(calls[r]) = 2
    /\ ~calls[r][2].raised
    /\ calls[r][2].evals = <<1, 2, 3>>
    /\ calls[r][2].solver_gradients[1] # calls[r][2].solver_gradients[2]
    /\ calls[r][2].solver_gradients[2] = calls[r][2].evaluated[2][2]

\* the outcomes of a run of optimize_ci
C12_Terminal == {"returned", "failed"}

\* what one step must satisfy for the optimize_ci run r
C12_Step(r) ==
  /\ pc'[r] # pc[r] =>
       <<pc[r], pc'[r]>> \in {<<"ready", "optimizing">>, <<"ready", "failed">>,
                             <<"optimizing", "returned">>, <<"optimizing", "failed">>}
  /\ ci'[r].invoked =>
       /\ Len(ci'[r].g_scanners) = 2
       /\ \A i \in 1..2 : args[r].methods[i] # "none"
  /\ ((\E i \in 1..Len(args[r].methods) : args[r].methods[i] = "none")
        /\ pc'[r] # "ready") =>
       ~ci'[r].invoked /\ pc'[r] = "failed" /\ ci'[r].evals = <<>>
  /\ (pc'[r] = "optimizing" \/ ci'[r].evals # <<>>) => ci'[r].invoked
  /\ pc'[r] = "returned" <=> conv'[r] \in {"converged", "unconverged"}
  /\ pc'[r] = "returned" => ci'[r].result[1] = (conv'[r] = "converged")
  /\ pc'[r] = "failed" => (conv'[r] = "none" /\ ret'[r] = <<>> /\ ci'[r].result = <<>>)
  /\ pc[r] \in C12_Terminal =>
       (pc'[r] = pc[r] /\ conv'[r] = conv[r] /\ ret'[r] = ret[r]
         /\ ci'[r].result = ci[r].result)

\* C12: an optimize_ci run goes initialized -> staged -> optimizing ->
\* converged | unconverged | failed: the optimizer is invoked only with the
\* handles of both surfaces acquired, never when acquiring one raised
\* NotImplementedError, and the run ends in exactly one of the outcomes
\* "returns True", "returns False" and "an error propagates", which it keeps.
C12_StateMachine == [][\A r \in CIRuns : C12_Step(r)]_vars

\* a run that got the handle of the first surface and none for the second
C12_Witness ==
  \E r \in CIRuns :
    /\ args[r].kind = "optimize_ci"
    /\ pc[r] = "failed"
    /\ ci[r].g_scanners = <<1>>
    /\ ~ci[r].invoked

\* the text run r wrote to the given stream, in the order written
WrittenTo(r, stream) ==
  SelectSeq(buffer[r].written, LAMBDA t : t[2] = stream)

\* C13: of the text written to sys.stdout / sys.stderr during a TS driver run
\* nothing reaches the process's standard streams; while the optimizer runs
\* the streams point to the run's buffers; when the driver has returned, the
\* stdout and stderr fields of its result hold all of it; and when the run
\* has ended, by return or by an error, the process's streams are back.
C13_OutputCaptured ==
  \A r \in TSRuns :
    /\ \A i \in 1..Len(process_out) : process_out[i][1] # r
    /\ pc[r] = "optimizing" => (sys_stdout = r /\ buffer[r].active)
    /\ pc[r] = "returned" =>
         /\ ret[r][1].stdout = WrittenTo(r, "stdout")
         /\ ret[r][1].stderr = WrittenTo(r, "stderr")
    /\ Ended(r) => (sys_stdout = 0 /\ ~buffer[r].active)

\* a driver call that returned after text was written to standard error
C13_Witness ==
  \E r \in TSRuns :
    /\ pc[r] = "returned"
    /\ WrittenTo(r, "stderr") # <<>>
    /\ ret[r][1].stderr = WrittenTo(r, "stderr")
    /\ sys_stdout = 0

\* the evaluations of engine i made in run r, through any wrapper
EvalsOf(r, i) == SelectSeq(ci[r].evals, LAMBDA e : e.engine = i)

\* C14: every deep copy of the engines wrapper has the length of the original
\* and holds at every index the very engine object the original holds; no
\* engine object is created by copying; and the state of an engine seen
\* through the original shows every evaluation made through any copy.
C14_CopySharesEngines ==
  \A r \in CIRuns :
    LET w == ci[r].engines_wrapper
    IN /\ \A k \in 1..Len(ci[r].copies) :
            /\ EnginesWrapper_len(ci[r].copies[k]) = EnginesWrapper_len(w)
            /\ \A i \in 1..EnginesWrapper_len(w) :
                 EnginesWrapper_getitem(ci[r].copies[k], i) = EnginesWrapper_getitem(w, i)
       /\ ci[r].invoked =>
            /\ Len(ci[r].heap) = 2
            /\ \A i \in 1..2 :
                 ci[r].heap[EnginesWrapper_getitem(w, i)].cycle = Len(EvalsOf(r, i))

\* an evaluation made through a copy that the original wrapper's engine shows
C14_Witness ==
  \E r \in CIRuns :
    /\ Len(ci[r].copies) = 1
    /\ \E k \in 1..Len(ci[r].evals) : ci[r].evals[k].via = 1
    /\ \A k \in 1..Len(ci[r].evals) : ci[r].evals[k].via = 1
    /\ ci[r].heap[EnginesWrapper_getitem(ci[r].engines_wrapper, 2)].cycle = 1

\* what one step must satisfy for the symmetry keyword of run r's engine.mol
C15_Step(r) ==
  /\ ci'[r].invoked =>
       ci'[r].symmetry = IF args[r].symmetry = "False" THEN "False" ELSE "C2v"
  /\ ci[r].invoked => ci'[r].symmetry = ci[r].symmetry
  /\ ci'[r].symmetry # ci[r].symmetry => (~ci[r].invoked /\ ci'[r].invoked)
  /\ ci'[r].evals # <<>> => ci'[r].invoked

\* C15: optimize_ci handles symmetry once, before the optimizer's first
\* evaluation: when run_optimizer is invoked, the symmetry keyword of the
\* working molecule is the detected point group if symmetry was enabled (True
\* or a label) and False if it was not, and no later step of the run changes it.
C15_SymmetryPinnedOnce == [][\A r \in CIRuns : C15_Step(r)]_vars

\* a run with symmetry enabled that was evaluated twice with the label pinned
C15_Witness ==
  \E r \in CIRuns :
    /\ args[r].symmetry = "True"
    /\ Len(ci[r].evals) = 4
    /\ ci[r].symmetry = "C2v"

\* the six per-call lists of an OptResults
TrajectoryLists ==
  {"coordinates", "energies_diabatic", "energies_adiabatic",
   "gradients_diabatic", "gradients_adiabatic", "indices"}

\* what one step must satisfy for the OptResults of run r
C16_Step(r) ==
  \A l \in TrajectoryLists :
    /\ IsPrefix(results[r][l], results'[r][l])
    /\ Len(results'[r][l]) \in {Len(results[r][l]), Len(results[r][l]) + 1}
    /\ (Len(calls'[r]) = Len(calls[r]) + 1 /\ ~calls'[r][Len(calls'[r])].raised)
         => Len(results'[r][l]) = Len(results[r][l]) + 1

\* C16: the trajectory is append-only: every step leaves each of the six
\* lists as it was or with one entry added at its end, a Surface Bridge call
\* that returns adds exactly one entry to each, and no entry of an earlier
\* call is changed, moved or removed.
C16_AppendOnly == [][\A r \in TSRuns : C16_Step(r)]_vars

\* two returned calls at different geometries, the first call's entry first
C16_Witness ==
  \E r \in TSRuns :
    /\ Len(results[r].coordinates) = 2
    /\ results[r].coordinates[1] # results[r].coordinates[2]
    /\ results[r].coordinates[1] = calls[r][1].coordinates
    /\ results[r].energies_adiabatic[1] = calls[r][1].energies_ad

\* what one step must satisfy for the six lists of run r
C17_Step(r) ==
  /\ Cardinality(ListLengths(results[r])) = 1
  /\ Cardinality(ListLengths(results'[r])) = 1
  /\ (Len(calls'[r]) = Len(calls[r]) + 1 /\ calls'[r][Len(calls'[r])].raised)
       => \A l \in TrajectoryLists : results'[r][l] = results[r][l]

\* C17: a Surface Bridge call appends all-or-nothing: before and after every
\* step the six lists have one common length, and a call in which an
\* evaluator or the Secular Solver raises leaves each of the six lists as it
\* was before the call.
C17_AllOrNothing == [][\A r \in TSRuns : C17_Step(r)]_vars

\* a call that returned followed by a call whose solver raised
C17_Witness ==
  \E r \in TSRuns :
    /\ Len(calls[r]) = 2
    /\ ~calls[r][1].raised
    /\ calls[r][2].raised /\ calls[r][2].solver_called
    /\ ListLengths(results[r]) = {1}

\* the Surface Bridge calls of run r that returned
ReturnedCalls(r) == SelectSeq(calls[r], LAMBDA c : ~c.raised)

\* the six lists of res are the records of exactly the given calls, in order
HoldsRecordsOf(res, own) ==
  /\ res.coordinates = [k \in 1..Len(own) |-> own[k].coordinates]
  /\ res.energies_diabatic = [k \in 1..Len(own) |-> own[k].solver_energies]
  /\ res.gradients_diabatic = [k \in 1..Len(own) |-> own[k].solver_gradients]
  /\ res.energies_adiabatic = [k \in 1..Len(own) |-> own[k].energies_ad]
  /\ res.gradients_adiabatic = [k \in 1..Len(own) |-> own[k].gradients_ad]
  /\ Len(res.indices) = Len(own)

\* C18: in every interleaving of two driver calls, the OptResults of each
\* holds the records of that call's own returned Surface Bridge calls, in
\* their order, and no record of the other call; so does the result it returns.
C18_OwnRecordsOnly ==
  \A r \in TSRuns :
    /\ HoldsRecordsOf(results[r], ReturnedCalls(r))
    /\ pc[r] = "returned" => HoldsRecordsOf(ret[r][1], ReturnedCalls(r))

\* run 2 started while run 1 was optimizing, and both returned two records
\* that differ from the other run's
C18_Witness ==
  /\ buffer[2].old = 1
  /\ pc[1] = "returned" /\ pc[2] = "returned"
  /\ Len(ret[1][1].coordinates) = 2 /\ Len(ret[2][1].coordinates) = 2
  /\ ret[1][1].energies_adiabatic # ret[2][1].energies_adiabatic

\* the direct calls of e_g_function_ci
DirectRuns == {r \in Runs : args[r].kind = "e_g_function_ci"}

\* C19: a call of e_g_function_ci in which every evaluator succeeded has
\* returned the energy and gradient at index 1 of the Secular Solver output
\* for the shifted energies, and has appended one record to the OptResults
\* it was given.
C19_ReturnsTargetAndAppends ==
  \A r \in DirectRuns :
    (Len(calls[r]) = 1 /\ Len(calls[r][1].evaluated) = Len(args[r].topologies)) =>
      /\ pc[r] = "returned"
      /\ Len(ret[r]) = 2
      /\ ListLengths(results[r]) = {1}

\* the same arguments given to the other of ts_from_gfnff and ts_from_gfnff_ci
Twin(a) ==
  [a EXCEPT !.kind = IF @ = "ts_from_gfnff" THEN "ts_from_gfnff_ci" ELSE "ts_from_gfnff"]

\* C20: in every state of a ts_from_gfnff or ts_from_gfnff_ci run, the other
\* driver given the same arguments would do the same: it binds e_g_function
\* with the same topologies, e_shift, coupling and path, so that every next
\* Surface Bridge call has the same evaluator calls, record and value, and it
\* returns the same result; no penalty engine is used.  They differ only at
\* the start, when the parent of path is missing: ts_from_gfnff fails there
\* and ts_from_gfnff_ci creates path with its parents.
C20_SameAsTsFromGfnff ==
  \A r \in XtbRuns :
    LET a == args[r]
        plain == DriverMkdir(fs, "ts_from_gfnff", a.path)
        withci == DriverMkdir(fs, "ts_from_gfnff_ci", a.path)
    IN /\ pc[r] = "ready" =>
            IF a.path = NoPath \/ Exists(fs, a.path) \/ IsDir(fs, Parent(a.path))
              THEN plain = withci
              ELSE /\ ~plain.ok /\ plain.fs = fs
                   /\ withci.ok
                   /\ \A q \in Ancestors(a.path) : IsDir(withci.fs, q)
                   /\ \A q \in DOMAIN fs : q \in DOMAIN withci.fs /\ withci.fs[q] = fs[q]
       /\ pc[r] = "optimizing" =>
            \A fail \in 0..(Len(a.topologies) + 1) :
              Bridge(a, fs, mol[r], results[r], fail)
                = Bridge(Twin(a), fs, mol[r], results[r], fail)
       /\ \A c \in BOOLEAN :
            DriverReturn(a, results[r], buffer[r], mol[r], c)
              = DriverReturn(Twin(a), results[r], buffer[r], mol[r], c)
       /\ \A k \in 1..Len(calls[r]) : calls[r][k].bridge = "e_g_function"
       /\ ci[r] = NoCi

\* a ts_from_gfnff_ci run with a coupling, under a path whose parent it had
\* to create, optimizing after a Surface Bridge call that returned
C20_Witness ==
  \E r \in XtbRuns :
    /\ args[r].kind = "ts_from_gfnff_ci"
    /\ args[r].path = <<"a", "p">>
    /\ args[r].coupling = 2
    /\ pc[r] = "optimizing"
    /\ Len(calls[r]) = 1 /\ ~calls[r][1].raised
    /\ IsDir(fs, <<"a">>)

====
